---- MODULE Spec2Model ----
(***************************************************************************)
(* A state-machine model of script.js: the mobile navigation menu, the     *)
(* header scroll effect, the debounce and throttle helpers, smooth         *)
(* scrolling to in-page anchors, the fade-in of observed elements, the     *)
(* ripple of the call-to-action button, the timers they start, and the     *)
(* DOMContentLoaded initialisation of the five features.                   *)
(*                                                                         *)
(* Time is in milliseconds.  Timers fire exactly when their delay has      *)
(* elapsed; user events (click, keydown, resize, scroll) are sampled at    *)
(* instants that are multiples of Quantum, and several events may happen   *)
(* at one instant, before or after the timers due at that instant.         *)
(***************************************************************************)
EXTENDS Integers, Sequences, FiniteSets

\* ------------------------------------------------------------------------
\* Program constants
\* ------------------------------------------------------------------------

\* CONFIG.breakpoints.mobile
mobile == 768

\* CONFIG.scroll.threshold
threshold == 100

\* debounce(..., 250) of the resize listener
debounceWait == 250

\* throttle(..., 16) of the scroll listener
throttleLimit == 16

\* setTimeout(() => firstLink.focus(), 100) in openMenu
focusDelay == 100

\* setTimeout(() => removeChild(announcement), 1000)
announceDelay == 1000

\* CONFIG.scroll.offset
offset == 80

\* setTimeout(..., 100) in manageFocus
tabindexDelay == 100

\* setTimeout(..., 600) in createRippleEffect
rippleDelay == 600

\* ------------------------------------------------------------------------
\* Bounds of the model
\* ------------------------------------------------------------------------

\* The instants at which user events are sampled are the multiples of Quantum.
Quantum == 200

\* At most MaxPending announcement nodes (and the resize timer that may
\* create one) are outstanding at a time.
MaxPending == 2

\* The menu holds 0..MaxLinks elements of class nav__link.
MaxLinks == 2

\* The scroll offsets the user scrolls to: the top, the threshold, and
\* MaxOver offsets beyond it.
MaxOver == 1

\* At most MaxHistory clicks on in-page anchors are followed.
MaxHistory == 2

\* The page holds MaxFade elements of class fade-in.
MaxFade == 3

\* At most MaxRipples ripple spans are on the button at a time.
MaxRipples == 2

ScrollTops == {0, threshold} \cup {threshold + k : k \in 1..MaxOver}

Widths == {mobile, mobile + 1}

Keys == {"Escape", "Tab", "Enter"}

FadeElements == 1..MaxFade

\* ------------------------------------------------------------------------
\* State
\* ------------------------------------------------------------------------

VARIABLES
    \* the page and the browser (fixed at load)
    hasToggle,      \* document.querySelector('.nav__toggle') is not null
    hasMenu,        \* document.querySelector('.nav__menu') is not null
    numLinks,       \* number of .nav__link elements, all inside the menu
    hasHeader,      \* document.querySelector('.header') is not null
    hasCta,         \* document.querySelector('.cta-button') is not null
    hasIO,          \* the browser defines IntersectionObserver
    reducedMotion,  \* prefersReducedMotion()
    \* initialisation
    ready,          \* the DOMContentLoaded handler has run
    listeners,      \* the event listeners registered so far
    constructed,    \* the features whose constructor returned
    uncaught,       \* an exception escaped the DOMContentLoaded handler
    console,        \* the messages written to the console
    \* MobileNavigation
    isOpen,         \* this.isOpen
    menuActive,     \* the menu element has class 'active'
    ariaExpanded,   \* the toggle's aria-expanded attribute
    ariaLabel,      \* the toggle's aria-label attribute
    bodyOverflow,   \* document.body.style.overflow
    focus,          \* document.activeElement
    announcements,  \* the sr-only nodes that are children of the body
    removeFailed,   \* removeChild was called on a node that is not a child
    \* the debounced resize handler
    innerWidth,     \* window.innerWidth
    timeout,        \* debounce's timeout: a timer id, or 0 for null/undefined
    \* HeaderScrollEffects and the throttled scroll handler
    scrollTop,      \* window.pageYOffset
    isScrolled,     \* this.isScrolled
    headerScrolled, \* the header element has class 'scrolled'
    lastScrollTop,  \* this.lastScrollTop
    inThrottle,     \* throttle's inThrottle
    \* time
    timers,         \* the pending setTimeout timers, in the order they will fire
    phase,          \* the current time modulo Quantum
    sinceResize,    \* ms since the last resize event (saturates at debounceWait)
    sinceUpdate,    \* ms since the last updateHeader call (saturates at throttleLimit)
    \* SmoothScrolling
    defaultPrevented, \* preventDefault was called on the click being dispatched
    tabindex,       \* the tabindex attribute of each element an anchor may name
    history,        \* the fragments of the entries added to the session history
    scrollReq,      \* the last call of window.scrollTo, or NoScroll
    \* ScrollAnimations
    fadeVisible,    \* the .fade-in elements that have class 'visible'
    observer,       \* an IntersectionObserver has been constructed
    observed,       \* the elements the observer observes
    \* InteractiveElements
    ripples,        \* the ripple spans that are children of the button
    keyframes,      \* number of style elements with id 'ripple-keyframes'
    ctaPosition     \* the button's position

pageVars == <<hasToggle, hasMenu, numLinks, hasHeader, hasCta, hasIO, reducedMotion>>
initVars == <<ready, listeners, constructed, uncaught, console>>
menuVars == <<isOpen, menuActive, ariaExpanded, ariaLabel, bodyOverflow, focus,
              announcements, removeFailed>>
resizeVars == <<innerWidth, timeout>>
headerVars == <<scrollTop, isScrolled, headerScrolled, lastScrollTop, inThrottle>>
timeVars == <<timers, phase, sinceResize, sinceUpdate>>
anchorVars == <<defaultPrevented, tabindex, history, scrollReq>>
fadeVars == <<fadeVisible, observer, observed>>
rippleVars == <<ripples, keyframes, ctaPosition>>

vars == <<pageVars, initVars, menuVars, resizeVars, headerVars, timeVars,
          anchorVars, fadeVars, rippleVars>>

\* ------------------------------------------------------------------------
\* Helpers
\* ------------------------------------------------------------------------

Min(S) == CHOOSE x \in S : \A y \in S : x <= y

Least(a, b) == IF a <= b THEN a ELSE b

RECURSIVE SelectSeqNot(_, _)
\* the sequence q without the timers whose id is id
SelectSeqNot(q, id) ==
    IF q = <<>> THEN <<>>
    ELSE IF Head(q).id = id THEN SelectSeqNot(Tail(q), id)
         ELSE <<Head(q)>> \o SelectSeqNot(Tail(q), id)

\* Elements that can hold the focus.
Body == [el |-> "body", idx |-> 0]
Toggle == [el |-> "toggle", idx |-> 0]
Link(i) == [el |-> "link", idx |-> i]

\* What the toggle's attributes and the body's style hold before the script
\* writes them: whatever the markup provides.
Unset == "unset"

\* ------------------------------------------------------------------------
\* The mutable state the handlers work on, as one record
\* ------------------------------------------------------------------------

Cur ==
    [isOpen |-> isOpen, menuActive |-> menuActive, ariaExpanded |-> ariaExpanded,
     ariaLabel |-> ariaLabel, bodyOverflow |-> bodyOverflow, focus |-> focus,
     announcements |-> announcements, removeFailed |-> removeFailed,
     timeout |-> timeout, isScrolled |-> isScrolled,
     headerScrolled |-> headerScrolled, lastScrollTop |-> lastScrollTop,
     inThrottle |-> inThrottle, timers |-> timers,
     sinceResize |-> sinceResize, sinceUpdate |-> sinceUpdate,
     scrollTop |-> scrollTop, defaultPrevented |-> defaultPrevented,
     tabindex |-> tabindex, history |-> history,
     scrollReq |-> scrollReq, ripples |-> ripples, keyframes |-> keyframes,
     ctaPosition |-> ctaPosition]

Becomes(s) ==
    /\ isOpen' = s.isOpen
    /\ menuActive' = s.menuActive
    /\ ariaExpanded' = s.ariaExpanded
    /\ ariaLabel' = s.ariaLabel
    /\ bodyOverflow' = s.bodyOverflow
    /\ focus' = s.focus
    /\ announcements' = s.announcements
    /\ removeFailed' = s.removeFailed
    /\ timeout' = s.timeout
    /\ isScrolled' = s.isScrolled
    /\ headerScrolled' = s.headerScrolled
    /\ lastScrollTop' = s.lastScrollTop
    /\ inThrottle' = s.inThrottle
    /\ timers' = s.timers
    /\ sinceResize' = s.sinceResize
    /\ sinceUpdate' = s.sinceUpdate
    /\ scrollTop' = s.scrollTop
    /\ defaultPrevented' = s.defaultPrevented
    /\ tabindex' = s.tabindex
    /\ history' = s.history
    /\ scrollReq' = s.scrollReq
    /\ ripples' = s.ripples
    /\ keyframes' = s.keyframes
    /\ ctaPosition' = s.ctaPosition

\* ------------------------------------------------------------------------
\* Timers
\* ------------------------------------------------------------------------

TimerIds(q) == {q[i].id : i \in 1..Len(q)}

\* the handle setTimeout returns, for a caller that keeps it: one no pending
\* timer has.  A timer whose handle the caller drops has id 0.
NewTimerId(q) == Min((1..(Len(q) + 1)) \ TimerIds(q))

\* the pending timers q with timer t added: timers fire in the order of
\* their deadlines, and in the order of registration when these are equal
Enqueue(q, t) ==
    LET before == {i \in 1..Len(q) : q[i].delay - q[i].age <= t.delay}
        k == Cardinality(before)
    IN  SubSeq(q, 1, k) \o <<t>> \o SubSeq(q, k + 1, Len(q))

\* setTimeout(callback, delay): kind names the callback, arg its closure
setTimeout(s, kind, delay, arg, id) ==
    [s EXCEPT !.timers = Enqueue(@, [id |-> id, kind |-> kind, delay |-> delay,
                                     age |-> 0, arg |-> arg])]

\* clearTimeout(id): no effect when id names no pending timer
clearTimeout(s, id) ==
    IF id = 0 THEN s ELSE [s EXCEPT !.timers = SelectSeqNot(@, id)]

\* ------------------------------------------------------------------------
\* MobileNavigation
\* ------------------------------------------------------------------------

\* the announcement nodes that are in the document or that a pending
\* callback refers to
NodeIds(s) == {n.id : n \in s.announcements}
              \cup {s.timers[i].arg : i \in {j \in 1..Len(s.timers) :
                                               s.timers[j].kind = "announce"}}

\* document.createElement('div'): a node distinct from all of these
NewNode(s) == Cardinality(NodeIds(s)) + 1

\* Nodes are named 1..k in the order of their creation; when one is dropped
\* the names of the others close the gap.
Rank(ids, id) == Cardinality({i \in ids : i <= id})

Renamed(s) ==
    LET ids == NodeIds(s)
    IN  [s EXCEPT !.announcements = {[n EXCEPT !.id = Rank(ids, @)] : n \in @},
                  !.timers = [i \in 1..Len(@) |->
                                 IF @[i].kind = "announce"
                                 THEN [@[i] EXCEPT !.arg = Rank(ids, @)]
                                 ELSE @[i]]]

\* announceToScreenReader without the timer that removes the node
announceToScreenReaderNoCleanup(s, message) ==
    [s EXCEPT !.announcements =
        @ \cup {[id |-> NewNode(s), text |-> message, age |-> 0]}]

\* announceToScreenReader(message)
announceToScreenReader(s, message) ==
    LET node == NewNode(s)
        appended == [s EXCEPT !.announcements =
                        @ \cup {[id |-> node, text |-> message, age |-> 0]}]
    IN  setTimeout(appended, "announce", announceDelay, node, 0)

\* the callback of announceToScreenReader's timer: document.body.removeChild
removeAnnouncement(s, node) ==
    IF \E n \in s.announcements : n.id = node
    THEN [s EXCEPT !.announcements = {n \in @ : n.id # node}]
    ELSE [s EXCEPT !.removeFailed = TRUE]

\* openMenu()
openMenu(s) ==
    LET opened == [s EXCEPT !.isOpen = TRUE,
                            !.menuActive = TRUE,
                            !.ariaExpanded = "true",
                            !.ariaLabel = "Close navigation menu",
                            !.bodyOverflow = "hidden"]
        focusing == IF numLinks > 0
                    THEN setTimeout(opened, "focus", focusDelay, 0, 0)
                    ELSE opened
    IN  announceToScreenReader(focusing, "Navigation menu opened")

\* closeMenu without the reset of the body's overflow
closeMenuOverflowKept(s) ==
    LET closed == [s EXCEPT !.isOpen = FALSE,
                            !.menuActive = FALSE,
                            !.ariaExpanded = "false",
                            !.ariaLabel = "Open navigation menu"]
    IN  announceToScreenReader(closed, "Navigation menu closed")

\* closeMenu()
closeMenu(s) ==
    LET closed == [s EXCEPT !.isOpen = FALSE,
                            !.menuActive = FALSE,
                            !.ariaExpanded = "false",
                            !.ariaLabel = "Open navigation menu",
                            !.bodyOverflow = ""]
    IN  announceToScreenReader(closed, "Navigation menu closed")

\* toggleMenu()
toggleMenu(s) == IF s.isOpen THEN closeMenu(s) ELSE openMenu(s)

\* the click listener of the toggle
toggleClick(s) == toggleMenu(s)

\* linkClick without the test that the menu is open
linkClickAlwaysCloses(s) == closeMenu(s)

\* the click listener of each .nav__link
linkClick(s) == IF s.isOpen THEN closeMenu(s) ELSE s

\* documentClick without the test that the target is outside the toggle
documentClickNoToggleTest(s, target) ==
    IF s.isOpen /\ ~target.inMenu THEN closeMenu(s) ELSE s

\* the click listener of the document; target is the event's target
documentClick(s, target) ==
    IF s.isOpen /\ ~target.inMenu /\ ~target.inToggle THEN closeMenu(s) ELSE s

\* the keydown listener of the document
documentKeydown(s, key) ==
    IF key = "Escape" /\ s.isOpen
    THEN [closeMenu(s) EXCEPT !.focus = Toggle]
    ELSE s

\* the keydown listener of the menu (setupKeyboardNavigation); the focusable
\* elements of the menu are its links
menuKeydown(s, key, shiftKey) ==
    IF ~s.isOpen THEN s
    ELSE IF key = "Tab" /\ shiftKey /\ s.focus = Link(1)
         THEN [s EXCEPT !.focus = Link(numLinks)]
    ELSE IF key = "Tab" /\ ~shiftKey /\ s.focus = Link(numLinks)
         THEN [s EXCEPT !.focus = Link(1)]
    ELSE s

\* the callback of openMenu's timer: firstLink.focus()
focusFirstLink(s) == [s EXCEPT !.focus = Link(1)]

\* ------------------------------------------------------------------------
\* debounce and the resize listener
\* ------------------------------------------------------------------------

\* the function the resize listener debounces
resizeCheck(s, width) ==
    IF width > mobile /\ s.isOpen THEN closeMenu(s) ELSE s

\* executedFunction without the clearTimeout call
executedFunctionNoClear(s) ==
    LET id == NewTimerId(s.timers)
    IN  [setTimeout(s, "debounce", debounceWait, 0, id) EXCEPT !.timeout = id]

\* debounce's executedFunction (immediate is undefined)
executedFunction(s) ==
    LET cleared == clearTimeout(s, s.timeout)
        id == NewTimerId(cleared.timers)
    IN  [setTimeout(cleared, "debounce", debounceWait, 0, id) EXCEPT !.timeout = id]

\* debounce's later
later(s, width) == resizeCheck([s EXCEPT !.timeout = 0], width)

\* ------------------------------------------------------------------------
\* HeaderScrollEffects, throttle and the scroll listener
\* ------------------------------------------------------------------------

\* getScrollTop(): pageYOffset || documentElement.scrollTop || body.scrollTop || 0
getScrollTop(pageYOffset, docScrollTop, bodyScrollTop) ==
    IF pageYOffset # 0 THEN pageYOffset
    ELSE IF docScrollTop # 0 THEN docScrollTop
    ELSE IF bodyScrollTop # 0 THEN bodyScrollTop
    ELSE 0

\* updateHeader with the flag left set when the class is removed
updateHeaderFlagKept(s, y) ==
    LET top == getScrollTop(y, y, 0)
        classed ==
            IF top > threshold /\ ~s.isScrolled
            THEN [s EXCEPT !.headerScrolled = TRUE, !.isScrolled = TRUE]
            ELSE IF top <= threshold /\ s.isScrolled
            THEN [s EXCEPT !.headerScrolled = FALSE]
            ELSE s
    IN  [classed EXCEPT !.lastScrollTop = top, !.sinceUpdate = 0]

\* updateHeader()
updateHeader(s, y) ==
    LET top == getScrollTop(y, y, 0)
        classed ==
            IF top > threshold /\ ~s.isScrolled
            THEN [s EXCEPT !.headerScrolled = TRUE, !.isScrolled = TRUE]
            ELSE IF top <= threshold /\ s.isScrolled
            THEN [s EXCEPT !.headerScrolled = FALSE, !.isScrolled = FALSE]
            ELSE s
    IN  [classed EXCEPT !.lastScrollTop = top, !.sinceUpdate = 0]

\* handleScroll that also closes an open menu
handleScrollClosesMenu(s, y) ==
    IF ~s.inThrottle
    THEN setTimeout([updateHeader(IF s.isOpen THEN closeMenu(s) ELSE s, y)
                        EXCEPT !.inThrottle = TRUE],
                    "throttle", throttleLimit, 0, 0)
    ELSE s

\* handleScroll that never sets inThrottle
handleScrollNoFlag(s, y) ==
    IF ~s.inThrottle
    THEN setTimeout(updateHeader(s, y), "throttle", throttleLimit, 0, 0)
    ELSE s

\* the function throttle returns, as the scroll listener
handleScroll(s, y) ==
    IF ~s.inThrottle
    THEN setTimeout([updateHeader(s, y) EXCEPT !.inThrottle = TRUE],
                    "throttle", throttleLimit, 0, 0)
    ELSE s

\* the callback of throttle's timer
endThrottle(s) == [s EXCEPT !.inThrottle = FALSE]

\* ------------------------------------------------------------------------
\* SmoothScrolling
\* ------------------------------------------------------------------------

\* what getAttribute returns for an attribute the element does not have
Null == "null"

\* The elements with an id that the page's anchors name.
Sections == {"#home", "#about"}

\* the distance of a section from the top of the document
SectionTop(id) == IF id = "#home" THEN 0 ELSE offset + threshold + 1

\* the tabindex attribute the markup gives a section
MarkupTabindex(id) == IF id = "#home" THEN Null ELSE "0"

\* The href attributes of the page's a[href^="#"] elements: the sections, a
\* fragment that no element has, and the bare '#'.
Hrefs == Sections \cup {"#missing", "#"}

\* a section as the element that holds the focus
Section(id) == [el |-> id, idx |-> 0]

\* no call of window.scrollTo yet
NoScroll == [top |-> 0, behavior |-> "none", moving |-> FALSE, event |-> FALSE]

\* The offset the window ends at when asked to scroll to top: the document
\* is taller than the window by more than any offset asked for, and no
\* offset is above the top of the document.
Clamp(top) == IF top < 0 THEN 0 ELSE top

\* window.scrollTo(0, top) and window.scrollTo({top, behavior: 'smooth'}):
\* the first moves the window at once, the second starts an animation; a
\* scroll event follows when the offset changes
scrollTo(s, top, behavior) ==
    IF behavior = "smooth"
    THEN [s EXCEPT !.scrollReq = [top |-> top, behavior |-> behavior,
                                  moving |-> TRUE, event |-> FALSE]]
    ELSE [s EXCEPT !.scrollReq = [top |-> top, behavior |-> behavior,
                                  moving |-> FALSE,
                                  event |-> Clamp(top) # s.scrollTop],
                   !.scrollTop = Clamp(top)]

\* scrollToElement(element, offset), for an element that exists
scrollToElement(s, element, off) ==
    LET rectTop == SectionTop(element) - s.scrollTop
        elementPosition == rectTop + s.scrollTop
        offsetPosition == elementPosition - off
    IN  IF reducedMotion
        THEN scrollTo(s, offsetPosition, "auto")
        ELSE scrollTo(s, offsetPosition, "smooth")

\* history.pushState(null, null, targetId)
pushState(s, targetId) == [s EXCEPT !.history = Append(@, targetId)]

\* manageFocus(element)
manageFocus(s, element) ==
    LET originalTabIndex == s.tabindex[element]
        focused == [s EXCEPT !.tabindex[element] = "-1",
                             !.focus = Section(element)]
    IN  setTimeout(focused, "tabindex", tabindexDelay,
                   [element |-> element, original |-> originalTabIndex], 0)

\* the callback of manageFocus's timer
restoreTabindex(s, closure) ==
    IF closure.original = Null
    THEN [s EXCEPT !.tabindex[closure.element] = Null]
    ELSE [s EXCEPT !.tabindex[closure.element] = closure.original]

\* anchorClick with preventDefault called only when the target exists
anchorClickDefaultKept(s, href) ==
    IF href = "#" \/ href \notin Sections THEN s
    ELSE manageFocus(
            pushState(scrollToElement([s EXCEPT !.defaultPrevented = TRUE],
                                      href, offset), href),
            href)

\* The click listener of each a[href^="#"].  document.querySelector throws
\* for the bare '#', which is not a selector: the listener ends there.
anchorClick(s, href) ==
    LET prevented == [s EXCEPT !.defaultPrevented = TRUE]
    IN  IF href = "#" THEN prevented
        ELSE IF href \notin Sections THEN prevented
        ELSE manageFocus(pushState(scrollToElement(prevented, href, offset),
                                   href),
                         href)

\* What the browser does with a click on an a[href^="#"] whose default no
\* listener prevented: it navigates to the fragment.
defaultNavigation(s, href) ==
    LET entered == [s EXCEPT !.history = Append(@, href)]
    IN  IF href \in Sections THEN scrollTo(entered, SectionTop(href), "auto")
        ELSE IF href = "#" THEN scrollTo(entered, 0, "auto")
        ELSE entered

\* ------------------------------------------------------------------------
\* ScrollAnimations
\* ------------------------------------------------------------------------

\* the targets of the entries that are intersecting
Intersecting(entries) == {el \in DOMAIN entries : entries[el]}

\* the observer's callback without the unobserve call
observerCallbackStillObserved(s, entries) ==
    [s EXCEPT !.fadeVisible = @ \cup Intersecting(entries)]

\* The observer's callback; entries maps the target of each entry to its
\* isIntersecting.
observerCallback(s, entries) ==
    [s EXCEPT !.fadeVisible = @ \cup Intersecting(entries),
              !.observed = @ \ Intersecting(entries)]

\* ------------------------------------------------------------------------
\* InteractiveElements
\* ------------------------------------------------------------------------

\* document.createElement('span'): a span distinct from those on the button
NewRipple(s) == Min((1..(Cardinality(s.ripples) + 1)) \ s.ripples)

\* createRippleEffect without the test for an existing style element
createRippleEffectStyleAlways(s) ==
    IF reducedMotion THEN s
    ELSE LET ripple == NewRipple(s)
             styled == [s EXCEPT !.keyframes = @ + 1]
             positioned == IF styled.ctaPosition = "static"
                           THEN [styled EXCEPT !.ctaPosition = "relative"]
                           ELSE styled
             appended == [positioned EXCEPT !.ripples = @ \cup {ripple}]
         IN  setTimeout(appended, "ripple", rippleDelay, ripple, 0)

\* createRippleEffect(e)
createRippleEffect(s) ==
    IF reducedMotion THEN s
    ELSE LET ripple == NewRipple(s)
             styled == IF s.keyframes = 0
                       THEN [s EXCEPT !.keyframes = @ + 1]
                       ELSE s
             positioned == IF styled.ctaPosition = "static"
                           THEN [styled EXCEPT !.ctaPosition = "relative"]
                           ELSE styled
             appended == [positioned EXCEPT !.ripples = @ \cup {ripple}]
         IN  setTimeout(appended, "ripple", rippleDelay, ripple, 0)

\* the callback of createRippleEffect's timer
removeRipple(s, ripple) ==
    IF ripple \in s.ripples
    THEN [s EXCEPT !.ripples = @ \ {ripple}]
    ELSE s

\* ------------------------------------------------------------------------
\* Initialisation
\* ------------------------------------------------------------------------

Features == <<"MobileNavigation", "SmoothScrolling", "HeaderScrollEffects",
              "ScrollAnimations", "InteractiveElements">>

\* the listeners each constructor registers
Registers(feature) ==
    CASE feature = "MobileNavigation" ->
            IF ~hasToggle \/ ~hasMenu THEN {}
            ELSE {"toggle.click", "document.click", "document.keydown",
                  "window.resize", "menu.keydown"}
                 \cup (IF numLinks > 0 THEN {"link.click"} ELSE {})
      [] feature = "SmoothScrolling" -> {"anchor.click"}
      [] feature = "HeaderScrollEffects" ->
            IF ~hasHeader THEN {} ELSE {"window.scroll"}
      [] feature = "InteractiveElements" ->
            IF ~hasCta THEN {} ELSE {"cta.click"}
      [] OTHER -> {}

\* whether the constructor throws: new IntersectionObserver(...) is a
\* ReferenceError where the browser does not define it
Throws(feature) == feature = "ScrollAnimations" /\ ~reducedMotion /\ ~hasIO

\* the features the handler constructs: those before the first that throws
Completed ==
    {i \in 1..Len(Features) : \A j \in 1..i : ~Throws(Features[j])}

\* ScrollAnimations.init(): the elements that get class 'visible' at once
VisibleAtInit == IF reducedMotion THEN FadeElements ELSE {}

\* ScrollAnimations.init(): setupIntersectionObserver runs and returns
ObserverCreated == ~reducedMotion /\ hasIO

\* the state when the document has been parsed, before the script has run
Loaded ==
    /\ ready = FALSE
    /\ listeners = {}
    /\ constructed = {}
    /\ uncaught = FALSE
    /\ console = <<>>
    /\ isOpen = FALSE
    /\ menuActive = FALSE
    /\ ariaExpanded = Unset
    /\ ariaLabel = Unset
    /\ bodyOverflow = Unset
    /\ focus = Body
    /\ announcements = {}
    /\ removeFailed = FALSE
    /\ innerWidth \in Widths
    /\ timeout = 0
    /\ scrollTop = 0
    /\ isScrolled = FALSE
    /\ headerScrolled = FALSE
    /\ lastScrollTop = 0
    /\ inThrottle = FALSE
    /\ timers = <<>>
    /\ phase = 0
    /\ sinceResize = debounceWait
    /\ sinceUpdate = throttleLimit
    /\ defaultPrevented = FALSE
    /\ tabindex = [id \in Sections |-> MarkupTabindex(id)]
    /\ history = <<>>
    /\ scrollReq = NoScroll
    /\ fadeVisible = {}
    /\ observer = FALSE
    /\ observed = {}
    /\ ripples = {}
    /\ keyframes = 0
    /\ ctaPosition = "static"

\* any page, in any browser
AnyPage ==
    /\ hasToggle \in BOOLEAN
    /\ hasMenu \in BOOLEAN
    /\ numLinks \in (IF hasMenu THEN 0..MaxLinks ELSE {0})
    /\ hasHeader \in BOOLEAN
    /\ hasCta \in BOOLEAN
    /\ hasIO \in BOOLEAN
    /\ reducedMotion \in BOOLEAN

\* a page in a browser in which every constructor returns; the elements the
\* menu and the header need may be missing
Init ==
    /\ AnyPage
    /\ hasCta /\ hasIO /\ ~reducedMotion
    /\ Loaded

\* the DOMContentLoaded handler
DOMContentLoaded ==
    /\ ~ready
    /\ ready' = TRUE
    /\ constructed' = {Features[i] : i \in Completed}
    /\ listeners' = UNION {Registers(Features[i]) : i \in Completed}
    /\ uncaught' = (\E i \in 1..Len(Features) : Throws(Features[i]))
    /\ console' = console
    /\ fadeVisible' = VisibleAtInit
    /\ observer' = ObserverCreated
    /\ observed' = (IF ObserverCreated THEN FadeElements ELSE {})
    /\ UNCHANGED <<pageVars, menuVars, resizeVars, headerVars, timeVars,
                   anchorVars, rippleVars>>

\* ------------------------------------------------------------------------
\* User events
\* ------------------------------------------------------------------------

TargetToggle == [inToggle |-> TRUE, inMenu |-> FALSE, isLink |-> FALSE]
TargetLink == [inToggle |-> FALSE, inMenu |-> TRUE, isLink |-> TRUE]
TargetMenu == [inToggle |-> FALSE, inMenu |-> TRUE, isLink |-> FALSE]
TargetOutside == [inToggle |-> FALSE, inMenu |-> FALSE, isLink |-> FALSE]

\* the elements of the page that can hold the focus
Focusables ==
    {Body}
    \cup (IF hasToggle THEN {Toggle} ELSE {})
    \cup {Link(i) : i \in 1..numLinks}

\* announcement nodes outstanding, counting the one the resize timer may add
Load == Cardinality(announcements) + (IF timeout # 0 THEN 1 ELSE 0)

\* the listeners a click on target runs, in dispatch order
clickListeners(s, target) ==
    LET s1 == IF target.inToggle /\ "toggle.click" \in listeners
              THEN toggleClick(s) ELSE s
        s2 == IF target.isLink /\ "link.click" \in listeners
              THEN linkClick(s1) ELSE s1
    IN  IF "document.click" \in listeners THEN documentClick(s2, target) ELSE s2

\* the listeners a keydown runs, in dispatch order; its target is the
\* focused element
keydownListeners(s, key, shiftKey) ==
    LET s1 == IF s.focus.el = "link" /\ "menu.keydown" \in listeners
              THEN menuKeydown(s, key, shiftKey) ELSE s
    IN  IF "document.keydown" \in listeners THEN documentKeydown(s1, key) ELSE s1

Click(target) ==
    /\ ready /\ phase = 0 /\ Load < MaxPending
    /\ Becomes(clickListeners(Cur, target))
    /\ UNCHANGED <<pageVars, initVars, fadeVars, innerWidth, phase>>

ClickToggle == hasToggle /\ Click(TargetToggle)
ClickLink == numLinks > 0 /\ Click(TargetLink)
ClickMenu == hasMenu /\ Click(TargetMenu)
ClickOutside == Click(TargetOutside)

\* the listeners a click on an a[href^="#"] runs, in dispatch order, and the
\* default action that follows them
anchorListeners(s, target, href) ==
    LET s1 == IF target.isLink /\ "link.click" \in listeners
              THEN linkClick(s) ELSE s
        s2 == IF "anchor.click" \in listeners THEN anchorClick(s1, href) ELSE s1
        s3 == IF "document.click" \in listeners
              THEN documentClick(s2, target) ELSE s2
    IN  IF s3.defaultPrevented THEN s3 ELSE defaultNavigation(s3, href)

ClickAnchor(target, href) ==
    /\ ready /\ phase = 0 /\ Load < MaxPending /\ Len(history) < MaxHistory
    /\ Becomes(anchorListeners([Cur EXCEPT !.defaultPrevented = FALSE],
                               target, href))
    /\ UNCHANGED <<pageVars, initVars, fadeVars, innerWidth, phase>>

\* a click on an anchor outside the menu
ClickPageAnchor == \E href \in Hrefs : ClickAnchor(TargetOutside, href)

\* a click on a .nav__link that is an anchor
ClickNavAnchor == numLinks > 0 /\ \E href \in Hrefs : ClickAnchor(TargetLink, href)

\* The window reaches the offset a smooth scroll was asked for, and the
\* scroll event of a programmatic scroll is dispatched.
ScrollSettles ==
    /\ ready /\ phase = 0 /\ (scrollReq.moving \/ scrollReq.event)
    /\ Becomes(LET y == IF scrollReq.moving THEN Clamp(scrollReq.top)
                        ELSE scrollTop
                   settled == [Cur EXCEPT !.scrollTop = y,
                                          !.scrollReq.moving = FALSE,
                                          !.scrollReq.event = FALSE]
               IN  IF (scrollReq.event \/ y # scrollTop)
                      /\ "window.scroll" \in listeners
                   THEN handleScroll(settled, y) ELSE settled)
    /\ UNCHANGED <<pageVars, initVars, fadeVars, innerWidth, phase>>

\* The browser calls the observer's callback with one entry for each element
\* whose intersection with the viewport changed, among those observed.
IntersectionCallback(entries) ==
    /\ ready /\ observer
    /\ LET s == observerCallback([fadeVisible |-> fadeVisible,
                                  observed |-> observed], entries)
       IN  /\ fadeVisible' = s.fadeVisible
           /\ observed' = s.observed
    /\ UNCHANGED <<pageVars, initVars, menuVars, resizeVars, headerVars,
                   timeVars, anchorVars, rippleVars, observer>>

\* the batches of entries the browser may deliver
Entries == UNION {[targets -> BOOLEAN] : targets \in (SUBSET observed) \ {{}}}

Intersect == \E entries \in Entries : IntersectionCallback(entries)

\* the listeners a click on the .cta-button runs, in dispatch order
ctaListeners(s) ==
    LET s1 == IF "cta.click" \in listeners THEN createRippleEffect(s) ELSE s
    IN  IF "document.click" \in listeners
        THEN documentClick(s1, TargetOutside) ELSE s1

ClickCta ==
    /\ ready /\ phase = 0 /\ hasCta
    /\ Load < MaxPending /\ Cardinality(ripples) < MaxRipples
    /\ Becomes(ctaListeners(Cur))
    /\ UNCHANGED <<pageVars, initVars, fadeVars, innerWidth, phase>>

\* the user changes the motion preference of the system
MotionChange ==
    /\ ready /\ phase = 0
    /\ reducedMotion' = ~reducedMotion
    /\ UNCHANGED <<hasToggle, hasMenu, numLinks, hasHeader, hasCta, hasIO,
                   initVars, menuVars, resizeVars, headerVars, timeVars,
                   anchorVars, fadeVars, rippleVars>>

KeydownKey(key, shiftKey) ==
    /\ ready /\ phase = 0 /\ Load < MaxPending
    /\ Becomes(keydownListeners(Cur, key, shiftKey))
    /\ UNCHANGED <<pageVars, initVars, fadeVars, innerWidth, phase>>

Keydown == \E key \in Keys, shiftKey \in BOOLEAN : KeydownKey(key, shiftKey)

\* the user moves the focus (mouse, or the Tab key's default action)
FocusMove ==
    /\ ready /\ phase = 0
    /\ \E e \in Focusables \ {focus} : focus' = e
    /\ UNCHANGED <<pageVars, initVars, isOpen, menuActive, ariaExpanded, ariaLabel,
                   bodyOverflow, announcements, removeFailed, resizeVars,
                   headerVars, timeVars, anchorVars, fadeVars, rippleVars>>

Resize ==
    /\ ready /\ phase = 0 /\ (timeout # 0 \/ Load < MaxPending)
    /\ \E w \in Widths \ {innerWidth} :
          /\ innerWidth' = w
          /\ Becomes([(IF "window.resize" \in listeners
                       THEN executedFunction(Cur) ELSE Cur)
                      EXCEPT !.sinceResize = 0])
    /\ UNCHANGED <<pageVars, initVars, fadeVars, phase>>

Scroll ==
    /\ ready /\ phase = 0
    /\ \E y \in ScrollTops \ {scrollTop} :
          Becomes(LET scrolled == [Cur EXCEPT !.scrollTop = y]
                  IN  IF "window.scroll" \in listeners
                      THEN handleScroll(scrolled, y) ELSE scrolled)
    /\ UNCHANGED <<pageVars, initVars, fadeVars, innerWidth, phase>>

\* ------------------------------------------------------------------------
\* Time and timer callbacks
\* ------------------------------------------------------------------------

\* a timer is due when its delay has elapsed
IsDue(t) == t.age >= t.delay

\* the timer whose callback runs next
NextDue == Head(timers)

TimerDue == timers # <<>> /\ IsDue(NextDue)

\* time passes up to the next sampling instant or the next timer, whichever
\* comes first
Pass ==
    /\ ready /\ ~TimerDue
    /\ LET d == Min({Quantum - phase}
                    \cup {timers[i].delay - timers[i].age : i \in 1..Len(timers)})
       IN  /\ timers' = [i \in 1..Len(timers) |->
                            [timers[i] EXCEPT !.age = @ + d]]
           /\ announcements' = {[n EXCEPT !.age = Least(@ + d, announceDelay + 1)] :
                                    n \in announcements}
           /\ phase' = (phase + d) % Quantum
           /\ sinceResize' = Least(sinceResize + d, debounceWait)
           /\ sinceUpdate' = Least(sinceUpdate + d, throttleLimit)
    /\ UNCHANGED <<pageVars, initVars, isOpen, menuActive, ariaExpanded, ariaLabel,
                   bodyOverflow, focus, removeFailed, resizeVars, headerVars,
                   anchorVars, fadeVars, rippleVars>>

\* the state with the timer that runs next taken off the pending timers
Fired == [Cur EXCEPT !.timers = Tail(@)]

Fire(kind) ==
    /\ ready /\ TimerDue /\ NextDue.kind = kind
    /\ UNCHANGED <<pageVars, initVars, fadeVars, innerWidth, phase>>

FireFocus == Fire("focus") /\ Becomes(focusFirstLink(Fired))

FireAnnounce ==
    Fire("announce") /\ Becomes(Renamed(removeAnnouncement(Fired, NextDue.arg)))

FireDebounce == Fire("debounce") /\ Becomes(later(Fired, innerWidth))

FireThrottle == Fire("throttle") /\ Becomes(endThrottle(Fired))

FireTabindex == Fire("tabindex") /\ Becomes(restoreTabindex(Fired, NextDue.arg))

FireRipple == Fire("ripple") /\ Becomes(removeRipple(Fired, NextDue.arg))

Next ==
    \/ DOMContentLoaded
    \/ ClickToggle
    \/ ClickLink
    \/ ClickMenu
    \/ ClickOutside
    \/ Keydown
    \/ FocusMove
    \/ Resize
    \/ Scroll
    \/ Pass
    \/ FireFocus
    \/ FireAnnounce
    \/ FireDebounce
    \/ FireThrottle

Spec == Init /\ [][Next]_vars

\* The event loop keeps running: time passes, and a timer that is due fires.
TimerStep == Pass \/ FireFocus \/ FireAnnounce \/ FireDebounce \/ FireThrottle

SpecFair == Spec /\ WF_vars(TimerStep)

\* The menu alone under a live event loop: every event but scroll events,
\* which no listener of MobileNavigation receives.
NextMenu ==
    \/ DOMContentLoaded
    \/ ClickToggle
    \/ ClickLink
    \/ ClickMenu
    \/ ClickOutside
    \/ Keydown
    \/ FocusMove
    \/ Resize
    \/ Pass
    \/ FireFocus
    \/ FireAnnounce
    \/ FireDebounce

SpecMenuFair == Init /\ [][NextMenu]_vars /\ WF_vars(TimerStep)

\* In-page anchors, with the menu they may be links of and the header that
\* follows the scrolling; the user may prefer reduced motion.  The window is
\* not resized, so one width stands for all.
InitAnchor ==
    /\ AnyPage
    /\ hasCta /\ hasIO
    /\ Loaded
    /\ innerWidth = mobile

NextAnchor ==
    \/ DOMContentLoaded
    \/ ClickToggle
    \/ ClickPageAnchor
    \/ ClickNavAnchor
    \/ ScrollSettles
    \/ Pass
    \/ FireFocus
    \/ FireAnnounce
    \/ FireThrottle
    \/ FireTabindex

SpecAnchor == InitAnchor /\ [][NextAnchor]_vars

\* initialisation alone, on any page in any browser
InitLoad == AnyPage /\ Loaded

NextLoad == DOMContentLoaded

SpecLoad == InitLoad /\ [][NextLoad]_vars

\* The call-to-action button alone under a live event loop, on any page in
\* any browser; the user may change the motion preference.
NextRipple ==
    \/ DOMContentLoaded
    \/ ClickCta
    \/ MotionChange
    \/ Pass
    \/ FireRipple

SpecRippleFair ==
    InitLoad /\ [][NextRipple]_vars /\ WF_vars(TimerStep \/ FireRipple)

\* The fade-in elements alone, on any page in any browser.
NextFade ==
    \/ DOMContentLoaded
    \/ Intersect

SpecFade == InitLoad /\ [][NextFade]_vars

\* ------------------------------------------------------------------------
\* Properties
\* ------------------------------------------------------------------------

MenuWorks == "toggle.click" \in listeners

HeaderWorks == "window.scroll" \in listeners

Opened == "Navigation menu opened"
Closed == "Navigation menu closed"

\* C1, as stated: after any click on the toggle the menu has the class
\* 'active' and the toggle's aria-expanded is 'true'.
C1_ToggleClickAlwaysOpens ==
    [][(MenuWorks /\ ClickToggle) => (menuActive' /\ ariaExpanded' = "true")]_vars

\* C1, amended: a click on the toggle while the menu is closed leaves the menu
\* with the class 'active' and aria-expanded 'true'; a click on the toggle
\* while the menu is open leaves it without the class and aria-expanded 'false'.
C1_ToggleClickToggles ==
    [][(MenuWorks /\ ClickToggle) =>
          IF isOpen
          THEN ~isOpen' /\ ~menuActive' /\ ariaExpanded' = "false"
          ELSE isOpen' /\ menuActive' /\ ariaExpanded' = "true"]_vars

\* The menu has just been opened by a click on the toggle.
C1_Witness ==
    /\ MenuWorks /\ isOpen /\ menuActive /\ ariaExpanded = "true"
    /\ \E n \in announcements : n.text = Opened /\ n.age = 0

\* C2: in every reachable state isOpen is true exactly when the menu has the
\* class 'active', and isScrolled is true exactly when the header has the
\* class 'scrolled'.
C2_FlagsMirrorClasses ==
    /\ isOpen <=> menuActive
    /\ isScrolled <=> headerScrolled

\* Both flags and both classes are set, the menu having been closed and
\* opened again.
C2_Witness ==
    /\ isOpen /\ menuActive /\ isScrolled /\ headerScrolled
    /\ lastScrollTop > threshold
    /\ \E n \in announcements : n.text = Closed

\* C3, as stated: whenever no throttle window is open, the header has the
\* class 'scrolled' exactly when the scroll offset is above the threshold.
C3_HeaderFollowsOffset ==
    (HeaderWorks /\ ~inThrottle) => (headerScrolled <=> scrollTop > threshold)

MenuListeners == {"toggle.click", "link.click", "document.click",
                  "document.keydown", "window.resize", "menu.keydown"}

Warned == \E i \in 1..Len(console) : console[i].level = "warn"

Logged == console # <<>>

\* C4, as stated: when initialisation finds a required element missing, the
\* component has registered no listener and a console warning was emitted.
C4_MissingElementWarns ==
    ready =>
        /\ (~hasToggle \/ ~hasMenu) => (listeners \cap MenuListeners = {} /\ Warned)
        /\ ~hasHeader => ("window.scroll" \notin listeners /\ Warned)
        /\ ~hasCta => ("cta.click" \notin listeners /\ Warned)

\* C5, as stated: when a constructor throws during initialisation, the
\* failure is logged and no exception escapes the DOMContentLoaded handler.
C5_InitFailureCaught ==
    ready =>
        /\ ~uncaught
        /\ constructed # {Features[i] : i \in 1..Len(Features)} => Logged

MenuEvent ==
    \/ ClickToggle \/ ClickLink \/ ClickMenu \/ ClickOutside
    \/ Keydown \/ Resize \/ FireDebounce

ScrollEvent == Scroll \/ FireThrottle

menuState == <<isOpen, menuActive, ariaExpanded, ariaLabel, bodyOverflow>>

\* C6: no menu event (toggle click, link click, outside click, keydown,
\* resize and its deferred width check) changes isScrolled or the header's
\* class, and no scroll event (nor the end of a throttle window) changes
\* isOpen, the menu's class, the toggle's aria attributes or the body overflow.
C6_MenuAndHeaderIndependent ==
    [][/\ MenuEvent => UNCHANGED <<isScrolled, headerScrolled, lastScrollTop>>
       /\ ScrollEvent => UNCHANGED <<menuState, announcements>>]_vars

\* The menu is open over a scrolled header, just after a scroll event.
C6_Witness ==
    /\ isOpen /\ menuActive /\ isScrolled /\ headerScrolled
    /\ inThrottle /\ sinceUpdate = 0
    /\ announcements # {}

DebounceTimers == {i \in 1..Len(timers) : timers[i].kind = "debounce"}

ResizeListened == "window.resize" \in listeners

\* C7: at most one debounce timer is pending, and it is the one `timeout`
\* names; a resize event leaves exactly one, newly started; the width check
\* runs only when debounceWait ms have passed since the last resize event,
\* leaves no timer pending, and closes the menu exactly when the width is
\* above the mobile breakpoint and the menu is open at that moment.
C7_DebouncedResize ==
    [][/\ Cardinality(DebounceTimers') <= 1
       /\ \A i \in DebounceTimers' : timers'[i].id = timeout' /\ timeout' # 0
       /\ (timeout' # 0) => DebounceTimers' # {}
       /\ (ResizeListened /\ Resize) =>
             /\ \E i \in DebounceTimers' : timers'[i].age = 0
             /\ UNCHANGED menuState
       /\ FireDebounce =>
             /\ sinceResize = debounceWait
             /\ Head(timers).age = debounceWait
             /\ timeout' = 0 /\ DebounceTimers' = {}
             /\ IF innerWidth > mobile /\ isOpen
                THEN ~isOpen' /\ ~menuActive'
                ELSE UNCHANGED <<menuState, announcements>>]_vars

\* The deferred width check has just closed the menu: a node announcing the
\* close was appended at an instant at which no user event is sampled.
C7_Witness ==
    /\ ~isOpen /\ innerWidth > mobile /\ timeout = 0 /\ phase # 0
    /\ sinceResize = debounceWait
    /\ \E n \in announcements : n.text = Closed /\ n.age = 0

ThrottleTimers == {i \in 1..Len(timers) : timers[i].kind = "throttle"}

\* C8: a scroll event outside a throttle window runs updateHeader at once
\* and opens a window; a scroll event inside a window changes nothing of the
\* header; the timer that ends the window does not run updateHeader; a
\* window is open exactly while its one timer is pending, so two runs of
\* updateHeader are at least throttleLimit ms apart.
C8_ThrottledScroll ==
    [][/\ (HeaderWorks /\ Scroll /\ ~inThrottle) =>
             /\ lastScrollTop' = scrollTop'
             /\ isScrolled' = (scrollTop' > threshold)
             /\ inThrottle'
             /\ sinceUpdate = throttleLimit /\ sinceUpdate' = 0
       /\ (HeaderWorks /\ Scroll /\ inThrottle) =>
             UNCHANGED <<isScrolled, headerScrolled, lastScrollTop, inThrottle,
                         timers, sinceUpdate>>
       /\ FireThrottle =>
             /\ Head(timers).age = throttleLimit
             /\ ~inThrottle'
             /\ UNCHANGED <<isScrolled, headerScrolled, lastScrollTop>>
       /\ Cardinality(ThrottleTimers') = (IF inThrottle' THEN 1 ELSE 0)]_vars

\* A window has ended after a scroll event was dropped inside it: the header
\* state is that of the earlier offset.
C8_Witness ==
    /\ HeaderWorks /\ ~inThrottle /\ sinceUpdate = throttleLimit
    /\ scrollTop # lastScrollTop
    /\ isScrolled # (scrollTop > threshold)

Escape == \E shiftKey \in BOOLEAN : KeydownKey("Escape", shiftKey)

\* C9: while the menu is open, a click on a link, a click outside the menu
\* and the toggle, and an Escape keydown each close it, and Escape moves the
\* focus to the toggle; while the menu is closed, none of these events, nor
\* a resize or its deferred width check, changes isOpen, the class, the aria
\* attributes or the body overflow, or appends an announcement.
C9_ClosingEvents ==
    [][/\ (MenuWorks /\ isOpen /\ (ClickLink \/ ClickOutside \/ Escape)) =>
             /\ ~isOpen' /\ ~menuActive'
             /\ ariaExpanded' = "false" /\ ariaLabel' = "Open navigation menu"
             /\ bodyOverflow' = ""
       /\ (MenuWorks /\ isOpen /\ Escape) => focus' = Toggle
       /\ (~isOpen /\ (ClickLink \/ ClickOutside \/ Escape \/ Resize
                         \/ FireDebounce)) =>
             UNCHANGED <<menuState, announcements>>]_vars

\* Escape has just closed a menu opened at the same instant: the focus is on
\* the toggle while the timer that focuses the first link is still pending.
C9_Witness ==
    /\ ~isOpen /\ ~menuActive /\ focus = Toggle
    /\ \E n \in announcements : n.text = Closed /\ n.age = 0
    /\ \E i \in 1..Len(timers) : timers[i].kind = "focus" /\ timers[i].age = 0

AnnounceTimers(q) == {i \in 1..Len(q) : q[i].kind = "announce"}

NodeTexts(nodes) == {<<n.id, n.text>> : n \in nodes}

\* C10, the steps: a step appends one announcement node, with the message of
\* the new state, when it changes isOpen, and none otherwise; every node in
\* the body has exactly one pending timer, of its own age, and every such
\* timer has its node in the body, so removeChild never fails; a node is
\* removed by its timer, when it has been in the body for announceDelay ms.
C10_Steps ==
    [][/\ (isOpen' # isOpen) =>
             \E n \in announcements' :
                /\ n.age = 0
                /\ n.text = (IF isOpen' THEN Opened ELSE Closed)
                /\ NodeTexts(announcements' \ {n}) = NodeTexts(announcements)
                /\ Cardinality(announcements') = Cardinality(announcements) + 1
       /\ (isOpen' = isOpen /\ ~FireAnnounce) =>
             NodeTexts(announcements') = NodeTexts(announcements)
       /\ FireAnnounce =>
             /\ \E n \in announcements :
                   n.id = Head(timers).arg /\ n.age = announceDelay
             /\ Cardinality(announcements') = Cardinality(announcements) - 1
       /\ ~removeFailed'
       /\ \A n \in announcements' :
             /\ n.age <= announceDelay
             /\ Cardinality({i \in AnnounceTimers(timers') :
                                timers'[i].arg = n.id}) = 1
       /\ \A i \in AnnounceTimers(timers') :
             \E n \in announcements' :
                n.id = timers'[i].arg /\ n.age = timers'[i].age]_vars

\* C10, the end: if from some point on the menu no longer changes state,
\* then from some point on the body holds no announcement node.
C10_Cleanup ==
    <>[][isOpen' = isOpen]_vars => <>[](announcements = {})

\* C10: announcement nodes are appended one per menu state transition and
\* removed once each by their timers after announceDelay ms, and none
\* remains once the menu stops changing state.
C10_AnnouncementsCleanedUp == C10_Steps /\ C10_Cleanup

\* The node that announced the opening of the menu has been removed while
\* the menu is still open.
C10_Witness ==
    /\ isOpen /\ menuActive /\ announcements = {}
    /\ AnnounceTimers(timers) = {}

\* C15, as stated: the callback of openMenu's timer moves the focus to the
\* first link only while the menu is open; once Escape has closed the menu
\* and put the focus on the toggle, the callback leaves the focus there.
C15_DeferredFocusIntoOpenMenu ==
    [][/\ (FireFocus /\ focus' = Link(1)) => isOpen
       /\ (FireFocus /\ ~isOpen /\ focus = Toggle) => focus' = Toggle]_vars

\* the class and the attributes that show the state of the menu
Indicators(s) == <<s.menuActive, s.ariaExpanded, s.ariaLabel, s.bodyOverflow>>

\* openMenu or closeMenu has run at least once
Toggled ==
    \/ isOpen \/ menuActive
    \/ ariaExpanded # Unset \/ ariaLabel # Unset \/ bodyOverflow # Unset

\* C16: once the menu has been opened or closed, the class 'active',
\* aria-expanded, aria-label and the body overflow agree with isOpen in every
\* state ('true', 'Close navigation menu', 'hidden' when open; 'false',
\* 'Open navigation menu', '' when closed), and two consecutive clicks on the
\* toggle give back the values of isOpen and of all four.
C16_IndicatorsAgree ==
    (MenuWorks /\ Toggled) =>
        /\ Indicators(Cur) =
              (IF isOpen
               THEN <<TRUE, "true", "Close navigation menu", "hidden">>
               ELSE <<FALSE, "false", "Open navigation menu", "">>)
        /\ LET once == clickListeners(Cur, TargetToggle)
               twice == clickListeners(once, TargetToggle)
           IN  /\ once.isOpen # isOpen
               /\ Indicators(once) # Indicators(Cur)
               /\ twice.isOpen = isOpen
               /\ Indicators(twice) = Indicators(Cur)

\* Two clicks on the toggle at one instant have opened the menu and closed
\* it again: both announcements are in the body.
C16_Witness ==
    /\ ~isOpen /\ ariaExpanded = "false" /\ bodyOverflow = ""
    /\ {n.text : n \in announcements} = {Opened, Closed}
    /\ \A n \in announcements : n.age = 0
    /\ phase = 0

\* C11: every click on an a[href^="#"] has its default prevented; when the
\* element the href names exists, the window is asked to scroll to the
\* element's document top minus offset (at once when reduced motion is
\* preferred, which moves the window there; smoothly otherwise), one history
\* entry with the fragment is added and the focus is on the element; when
\* it does not exist, the scroll offset, the scroll request, the history and
\* the focus stay as they were.
C11_AnchorClick ==
    [][\A target \in {TargetOutside, TargetLink}, href \in Hrefs :
          ClickAnchor(target, href) =>
             /\ defaultPrevented'
             /\ href \in Sections =>
                   /\ scrollReq'.top = SectionTop(href) - offset
                   /\ IF reducedMotion
                      THEN /\ scrollReq'.behavior = "auto"
                           /\ ~scrollReq'.moving
                           /\ scrollTop' = Clamp(SectionTop(href) - offset)
                      ELSE /\ scrollReq'.behavior = "smooth"
                           /\ scrollReq'.moving
                           /\ scrollTop' = scrollTop
                   /\ history' = Append(history, href)
                   /\ focus' = Section(href)
             /\ href \notin Sections =>
                   UNCHANGED <<scrollTop, scrollReq, history, focus>>]_vars

\* A click on the anchor of '#about' has just moved the window of a user who
\* prefers reduced motion: the scroll event is still to come, and so is the
\* timer that restores the tabindex.
C11_Witness ==
    /\ reducedMotion /\ defaultPrevented
    /\ scrollTop = SectionTop("#about") - offset
    /\ scrollReq.behavior = "auto" /\ scrollReq.event
    /\ history = <<"#about">>
    /\ focus = Section("#about")
    /\ tabindex["#about"] = "-1"
    /\ \E i \in 1..Len(timers) : timers[i].kind = "tabindex" /\ timers[i].age = 0

TabindexTimers == {i \in 1..Len(timers) : timers[i].kind = "tabindex"}

\* C14, as stated: whenever no timer of manageFocus is pending, the tabindex
\* attribute of every element that anchors name is the one it had before the
\* first click: the one of the markup, absent where the markup has none.
C14_TabindexRestored ==
    TabindexTimers = {} => \A id \in Sections : tabindex[id] = MarkupTabindex(id)

\* C12: no step removes 'visible' from an element; the observer's callback
\* gives 'visible' to exactly the targets of its intersecting entries and
\* unobserves them in the same call, and leaves the targets of the other
\* entries as they were; an element is observed or visible, never both, so
\* no entry arrives for an element that was processed; when reduced motion
\* is preferred at initialisation every element is visible at once and no
\* observer is created, so nothing is observed.
C12_FadeInMonotone ==
    [][/\ fadeVisible \subseteq fadeVisible'
       /\ \A entries \in Entries :
             IntersectionCallback(entries) =>
                /\ \A el \in DOMAIN entries :
                      IF entries[el]
                      THEN el \in fadeVisible' /\ el \notin observed'
                      ELSE /\ el \in fadeVisible' <=> el \in fadeVisible
                           /\ el \in observed'
                /\ \A el \in FadeElements \ DOMAIN entries :
                      /\ el \in fadeVisible' <=> el \in fadeVisible
                      /\ el \in observed' <=> el \in observed
       /\ observer' => /\ fadeVisible' \cap observed' = {}
                       /\ fadeVisible' \cup observed' = FadeElements
       /\ (DOMContentLoaded /\ reducedMotion) =>
             /\ fadeVisible' = FadeElements
             /\ ~observer' /\ observed' = {}
       /\ ~observer' => (observed' = {} /\ (ready => fadeVisible' = fadeVisible))]_vars

\* One element became visible on an intersecting entry and is no longer
\* observed; another is still observed and not visible.
C12_Witness ==
    /\ ready /\ observer /\ ~reducedMotion
    /\ fadeVisible = {1}
    /\ observed = FadeElements \ {1}
    /\ observed # {}

RippleTimers(q) == {i \in 1..Len(q) : q[i].kind = "ripple"}

CtaWorks == "cta.click" \in listeners

\* C13, the steps: a click on the button creates no ripple, style element
\* or timer while reduced motion is preferred, and otherwise appends exactly
\* one ripple span with a timer of its own; a ripple is removed by its timer,
\* rippleDelay ms after the click, and by nothing else; every ripple on the
\* button has exactly one pending timer; the document never holds more than
\* one style element with id ripple-keyframes, and holds one once a ripple
\* was created.
C13_Steps ==
    [][/\ (CtaWorks /\ ClickCta /\ reducedMotion) =>
             UNCHANGED <<ripples, keyframes, ctaPosition, timers>>
       /\ (CtaWorks /\ ClickCta /\ ~reducedMotion) =>
             /\ ripples \subseteq ripples'
             /\ Cardinality(ripples') = Cardinality(ripples) + 1
             /\ \E i \in RippleTimers(timers') :
                   /\ timers'[i].arg \in ripples' \ ripples
                   /\ timers'[i].age = 0
             /\ keyframes' = 1
       /\ FireRipple =>
             /\ Head(timers).age = rippleDelay
             /\ Head(timers).arg \in ripples
             /\ ripples' = ripples \ {Head(timers).arg}
       /\ ~(ClickCta \/ FireRipple) => ripples' = ripples
       /\ \A ripple \in ripples' :
             Cardinality({i \in RippleTimers(timers') :
                            timers'[i].arg = ripple}) = 1
       /\ \A i \in RippleTimers(timers') : timers'[i].arg \in ripples'
       /\ keyframes' <= 1 /\ keyframes' >= keyframes]_vars

\* C13, the end: if from some point on the button is no longer clicked,
\* then from some point on it holds no ripple.
C13_Cleanup ==
    <>[][~ClickCta]_vars => <>[](ripples = {})

\* C13: ripples are created one per click unless reduced motion is
\* preferred, removed rippleDelay ms later, none remains once the clicks
\* stop, and the keyframes style element is created at most once.
C13_RipplesCleanedUp == C13_Steps /\ C13_Cleanup

\* Every ripple has been removed by its timer, the style element stays, and
\* the user now prefers reduced motion.
C13_Witness ==
    /\ CtaWorks /\ reducedMotion
    /\ ripples = {} /\ RippleTimers(timers) = {}
    /\ keyframes = 1 /\ ctaPosition = "relative"

====
